---- MODULE Spec2Model ----
(***************************************************************************)
(* Model of the PDF sentence-extraction service                            *)
(* (src/src/pdf_extraction/main.py).                                       *)
(*                                                                         *)
(* A text is a sequence of characters; a character is a one-character      *)
(* string, and a character outside ASCII is written by its code point      *)
(* ("U+00A0").  The compiled patterns of main.py are modelled by operators *)
(* that scan the text left to right the way re.sub / re.split do: leftmost *)
(* match, greedy or lazy quantifiers as written, non-overlapping matches.  *)
(***************************************************************************)
EXTENDS Integers, Sequences, FiniteSets, TLC

VARIABLES
    pc,             \* position of the request handler extract_sentences
    page,           \* number of pages of the document iterated so far
    doc,            \* the blocks the Block Source has delivered so far
    all_text_list,  \* main.py:57
    full_text,      \* main.py:79
    status,         \* HTTP status of the response (0: none yet)
    raw_text,       \* argument of clean_and_split_text
    nfkd,           \* text after main.py:27
    repaired,       \* text after main.py:31
    text,           \* text after main.py:38
    candidates,     \* main.py:41
    sentences,      \* main.py:44
    text2,          \* main.py:27-38 applied to text once more
    fed,            \* number of pieces the input text was written from
    stage,          \* progress of the function-level specification
    handler,        \* per request: position of its extract_sentences call
    content_type,   \* per request: pdf_file.content_type
    source,         \* per request: what became of pymupdf.open and get_text
    cleaned,        \* per request: number of calls of clean_and_split_text
    replied,        \* per request: the HTTP statuses sent to the caller
    loop_thread,    \* the request running on the event-loop thread, 0: none
    total_requests,     \* app.py:150
    success_requests,   \* app.py:151
    failed_requests,    \* app.py:152
    latency_ms_count,   \* app.py:155
    lock,           \* app.py:157: the request holding metrics.lock, 0: none
    front,          \* per request: position of its frontend route function
    endpoint,       \* per request: the frontend route it calls
    answer          \* per request: HTTP status of the frontend's response

vars == <<pc, page, doc, all_text_list, full_text, status, raw_text, nfkd,
          repaired, text, candidates, sentences, text2, fed, stage, handler,
          content_type, source, cleaned, replied, loop_thread,
          total_requests, success_requests, failed_requests,
          latency_ms_count, lock, front, endpoint, answer>>

handlerVars == <<pc, page, doc, all_text_list, full_text, status>>

functionVars == <<text2, fed, stage>>

cleanVars == <<raw_text, nfkd, repaired, text, candidates, sentences>>

serviceVars == <<handler, content_type, source, cleaned, replied, loop_thread>>

counters ==
    <<total_requests, success_requests, failed_requests, latency_ms_count>>

metricsVars == <<counters, lock, front, endpoint, answer>>

(***************************************************************************)
(* Characters and the character classes the code tests.                    *)
(***************************************************************************)
LF == "\n"

NBSP == "U+00A0"

LIG_FI == "U+FB01"

E_ACUTE == "U+00C9"

COMB_ACUTE == "U+0301"

Lower == {"a", "b", "c", "d", "e", "f", "g", "h", "i", "j", "k", "l", "m",
          "n", "o", "p", "q", "r", "s", "t", "u", "v", "w", "x", "y", "z",
          LIG_FI}

Upper == {"A", "B", "C", "D", "E", "F", "G", "H", "I", "J", "K", "L", "M",
          "N", "O", "P", "Q", "R", "S", "T", "U", "V", "W", "X", "Y", "Z",
          E_ACUTE}

Digit == {"0", "1", "2", "3", "4", "5", "6", "7", "8", "9"}

\* \s of the patterns, and the whitespace of str.split / str.strip
Space == {" ", LF, "\t", NBSP}

\* \w of the patterns
Word == Lower \cup Upper \cup Digit \cup {"_"}

\* [a-z0-9] of RE_URL
LowerAsciiOrDigit == (Lower \ {LIG_FI}) \cup Digit

\* [.!?] of RE_PUNCT_SPACE and RE_SPLIT
Terminal == {".", "!", "?"}

\* ".!:;?" of the header logic
HeaderEnd == {".", "!", ":", ";", "?"}

HEADER_MAX_LEN == 100

MIN_SENTENCE_LEN == 10

(***************************************************************************)
(* String helpers.                                                         *)
(***************************************************************************)
\* first index j >= i with s[j] \notin class, Len(s)+1 when there is none
RECURSIVE SpanEnd(_, _, _)
SpanEnd(s, i, class) ==
    IF i > Len(s) \/ s[i] \notin class THEN i ELSE SpanEnd(s, i + 1, class)

\* first index j >= i with s[j] \in class, Len(s)+1 when there is none
RECURSIVE SkipTo(_, _, _)
SkipTo(s, i, class) ==
    IF i > Len(s) \/ s[i] \in class THEN i ELSE SkipTo(s, i + 1, class)

\* s[i..j-1] contains a line break
HasLineBreak(s, i, j) == \E k \in i..(j - 1) : s[k] = LF

\* the characters p occur in s from index i on
StartsAt(s, i, p) ==
    /\ i + Len(p) - 1 <= Len(s)
    /\ \A k \in 1..Len(p) : s[i + k - 1] = p[k]

Range(f) == {f[k] : k \in DOMAIN f}

RECURSIVE Flatten(_)
Flatten(ss) == IF ss = <<>> THEN <<>> ELSE Head(ss) \o Flatten(Tail(ss))

\* text.split(" "), joined again by " ": nothing is collapsed
CollapseSingleSpaces(s) == s

\* sep.join(ss)
RECURSIVE Join(_, _)
Join(ss, sep) ==
    IF ss = <<>> THEN <<>>
    ELSE IF Len(ss) = 1 THEN ss[1]
    ELSE ss[1] \o sep \o Join(Tail(ss), sep)

\* str.strip()
RECURSIVE LastNonSpace(_, _)
LastNonSpace(s, j) ==
    IF j = 0 \/ s[j] \notin Space THEN j ELSE LastNonSpace(s, j - 1)

Strip(s) == SubSeq(s, SpanEnd(s, 1, Space), LastNonSpace(s, Len(s)))

\* str.isdigit()
IsDigit(s) == s # <<>> /\ \A k \in 1..Len(s) : s[k] \in Digit

\* str.split() without argument: the maximal runs of non-whitespace
RECURSIVE SplitWords(_, _)
SplitWords(s, i) ==
    LET b == SpanEnd(s, i, Space)
        e == SkipTo(s, b, Space)
    IN  IF b > Len(s) THEN <<>>
        ELSE <<SubSeq(s, b, e - 1)>> \o SplitWords(s, e)

(***************************************************************************)
(* unicodedata.normalize("NFKD", .): every character is replaced by its    *)
(* compatibility decomposition.                                            *)
(***************************************************************************)
Decompose(c) ==
    IF c = NBSP THEN <<" ">>
    ELSE IF c = LIG_FI THEN <<"f", "i">>
    ELSE IF c = E_ACUTE THEN <<"E", COMB_ACUTE>>
    ELSE <<c>>

NFKD(s) == Flatten([k \in 1..Len(s) |-> Decompose(s[k])])

(***************************************************************************)
(* RE_HYPHEN = (\w+)-\s*\n\s*(\w+), substituted by \1\2.                   *)
(***************************************************************************)
\* end of the whitespace between the hyphen at h and the second fragment
HyphenGapEnd(s, h) == SpanEnd(s, h + 1, Space)

\* index after the match of RE_HYPHEN that starts at i, 0 when none does
HyphenMatchEnd(s, i) ==
    LET h == SpanEnd(s, i, Word)
        g == HyphenGapEnd(s, h)
        e == SpanEnd(s, g, Word)
    IN  IF /\ h > i
           /\ h <= Len(s)
           /\ s[h] = "-"
           /\ HasLineBreak(s, h + 1, g)
           /\ e > g
        THEN e ELSE 0

\* RE_HYPHEN.sub from index i on.  A match starts with a word character; the
\* scan is at the start of a run of them, and when no match starts there
\* none starts further into the run, which ends at the same place.
RECURSIVE SubHyphen(_, _)
SubHyphen(s, i) ==
    IF i > Len(s) THEN <<>>
    ELSE IF s[i] \notin Word
    THEN LET j == SkipTo(s, i, Word)
         IN  SubSeq(s, i, j - 1) \o SubHyphen(s, j)
    ELSE LET e == HyphenMatchEnd(s, i)
             h == SpanEnd(s, i, Word)
             g == HyphenGapEnd(s, h)
         IN  IF e = 0 THEN SubSeq(s, i, h - 1) \o SubHyphen(s, h)
             ELSE SubSeq(s, i, h - 1) \o SubSeq(s, g, e - 1)
                    \o SubHyphen(s, e)

(***************************************************************************)
(* RE_URL = (http[s]?://\S+?)\.\s*\n\s*([a-z0-9]), substituted by \1.\2.   *)
(***************************************************************************)
\* index after "http://" or "https://" at i, 0 when neither is there
SchemeEnd(s, i) ==
    IF StartsAt(s, i, <<"h", "t", "t", "p", "s", ":", "/", "/">>) THEN i + 8
    ELSE IF StartsAt(s, i, <<"h", "t", "t", "p", ":", "/", "/">>) THEN i + 7
    ELSE 0

\* end of the whitespace between the dot at d and the character after it
UrlGapEnd(s, d) == SpanEnd(s, d + 1, Space)

\* the dot at d ends group 1 of RE_URL: broken, then a lowercase or digit
UrlDotBreaks(s, d) ==
    LET g == UrlGapEnd(s, d)
    IN  /\ s[d] = "."
        /\ HasLineBreak(s, d + 1, g)
        /\ g <= Len(s)
        /\ s[g] \in LowerAsciiOrDigit

\* index of the dot of the match of RE_URL that starts at i, 0 when none
\* does: \S+? takes at least one character and stops at the first dot that
\* lets the rest of the pattern match
UrlMatchDot(s, i) ==
    LET b == SchemeEnd(s, i)
        t == IF b = 0 THEN 0 ELSE SkipTo(s, b, Space)
        ds == IF b = 0 THEN {}
              ELSE {d \in (b + 1)..(t - 1) : UrlDotBreaks(s, d)}
    IN  IF ds = {} THEN 0 ELSE CHOOSE d \in ds : \A x \in ds : d <= x

\* RE_URL.sub from index i on.  A match starts with "h".
RECURSIVE SubUrl(_, _)
SubUrl(s, i) ==
    IF i > Len(s) THEN <<>>
    ELSE IF s[i] # "h"
    THEN LET j == SkipTo(s, i, {"h"})
         IN  SubSeq(s, i, j - 1) \o SubUrl(s, j)
    ELSE LET d == UrlMatchDot(s, i)
             g == UrlGapEnd(s, d)
         IN  IF d = 0 THEN <<s[i]>> \o SubUrl(s, i + 1)
             ELSE SubSeq(s, i, d) \o <<s[g]>> \o SubUrl(s, g + 1)

(***************************************************************************)
(* " ".join(text.split())                                                  *)
(***************************************************************************)
CollapseWhitespace(s) == Join(SplitWords(s, 1), <<" ">>)

(***************************************************************************)
(* RE_PUNCT_SPACE = \s+([.!?]), substituted by \1.                         *)
(***************************************************************************)
\* RE_PUNCT_SPACE.sub from index i on.  A match starts with whitespace; the
\* scan is at the start of a run of it, and \s+ takes the whole run.
\* no substitution: the text from index i on as it is
KeepPunctSpace(s, i) == SubSeq(s, i, Len(s))

RECURSIVE SubPunctSpace(_, _)
SubPunctSpace(s, i) ==
    IF i > Len(s) THEN <<>>
    ELSE IF s[i] \notin Space
    THEN LET j == SkipTo(s, i, Space)
         IN  SubSeq(s, i, j - 1) \o SubPunctSpace(s, j)
    ELSE LET e == SpanEnd(s, i, Space)
         IN  IF e <= Len(s) /\ s[e] \in Terminal
             THEN <<s[e]>> \o SubPunctSpace(s, e + 1)
             ELSE SubSeq(s, i, e - 1) \o SubPunctSpace(s, e)

(***************************************************************************)
(* RE_SPLIT = (?<=[.!?])\s+ and RE_SPLIT.split(text): b is the start of    *)
(* the piece being read, i the scan position.  A separator is a whole run  *)
(* of whitespace that follows a terminal mark.                             *)
(***************************************************************************)
\* a split at every run of whitespace, whatever precedes it
SplitAtWhitespace(s, b, i) == SplitWords(s, i)

RECURSIVE SplitSentences(_, _, _)
SplitSentences(s, b, i) ==
    LET w == SkipTo(s, i, Space)
        e == SpanEnd(s, w, Space)
    IN  IF w > Len(s) THEN <<SubSeq(s, b, Len(s))>>
        ELSE IF w > 1 /\ s[w - 1] \in Terminal
        THEN <<SubSeq(s, b, w - 1)>> \o SplitSentences(s, e, e)
        ELSE SplitSentences(s, b, e)

(***************************************************************************)
(* The filter of main.py:44.                                               *)
(***************************************************************************)
\* the filter without its digit test
KeepAnyContent(s) == Len(Strip(s)) > MIN_SENTENCE_LEN

\* the filter with >= for >
KeepFromThreshold(s) == Len(Strip(s)) >= MIN_SENTENCE_LEN /\ ~IsDigit(s)

Keep(s) == Len(Strip(s)) > MIN_SENTENCE_LEN /\ ~IsDigit(s)

\* the filter emitting every sentence once (an order-preserving set)
RECURSIVE FilterSentencesOnce(_)
FilterSentencesOnce(ss) ==
    IF ss = <<>> THEN <<>>
    ELSE LET before == FilterSentencesOnce(SubSeq(ss, 1, Len(ss) - 1))
             last == ss[Len(ss)]
         IN  IF Keep(last) /\ Strip(last) \notin Range(before)
             THEN Append(before, Strip(last)) ELSE before

RECURSIVE FilterSentences(_)
FilterSentences(ss) ==
    IF ss = <<>> THEN <<>>
    ELSE (IF Keep(Head(ss)) THEN <<Strip(Head(ss))>> ELSE <<>>)
           \o FilterSentences(Tail(ss))

(***************************************************************************)
(* clean_and_split_text, stage by stage.                                   *)
(***************************************************************************)
StructuralFixes(s) == SubUrl(SubHyphen(s, 1), 1)

Cleanup(s) == SubPunctSpace(CollapseWhitespace(s), 1)

\* main.py:27-38
RepairNormalize(s) == Cleanup(StructuralFixes(NFKD(s)))

(***************************************************************************)
(* The filter and the whole of clean_and_split_text.                       *)
(***************************************************************************)
clean_and_split_text(s) ==
    FilterSentences(SplitSentences(RepairNormalize(s), 1, 1))

(***************************************************************************)
(* The header logic of extract_sentences (main.py:66-76).                  *)
(***************************************************************************)
TEXT == 0

IMAGE == 1

UNKNOWN_KIND == 2

\* b[6] != 1: everything but an image taken for text
IsNotImage(b) == b.kind # IMAGE

\* b[6] == 0
IsTextBlock(b) == b.kind = TEXT

\* the header test without "and block_text"
HeaderGuardLengthOnly(bt) == Len(bt) < HEADER_MAX_LEN

\* the operands of the header test evaluated before block_text[0] is read
HeaderGuard(bt) == Len(bt) < HEADER_MAX_LEN /\ bt # <<>>

\* reading block_text[0] or block_text[-1] of an empty string is an IndexError
HeaderRaises(bt) == HeaderGuard(bt) /\ bt = <<>>

\* the header test with <= for <
IsHeaderUpTo(bt) ==
    Len(bt) <= HEADER_MAX_LEN /\ bt # <<>> /\ bt[1] \in Upper

IsHeader(bt) == HeaderGuard(bt) /\ bt[1] \in Upper

\* the header logic without the test of main.py:73
HeaderLogicAlways(bt) == IF IsHeader(bt) THEN Append(bt, ".") ELSE bt

\* the header logic left out
HeaderLogicSkipped(bt) == bt

HeaderLogic(bt) ==
    IF IsHeader(bt) /\ bt[Len(bt)] \notin HeaderEnd
    THEN Append(bt, ".") ELSE bt

(***************************************************************************)
(* The documents the Block Source delivers: block contents b[4].           *)
(***************************************************************************)
\* "Meeting Minutes"
MeetingMinutes ==
    <<"M", "e", "e", "t", "i", "n", "g", " ", "M", "i", "n", "u", "t", "e",
      "s">>

\* "Finn and Tyge were present."
FinnAndTyge ==
    <<"F", "i", "n", "n", " ", "a", "n", "d", " ", "T", "y", "g", "e", " ",
      "w", "e", "r", "e", " ", "p", "r", "e", "s", "e", "n", "t", ".">>

\* "Poul was missing."
PoulWasMissing ==
    <<"P", "o", "u", "l", " ", "w", "a", "s", " ", "m", "i", "s", "s", "i",
      "n", "g", ".">>

\* "Results"
Results ==
    <<"R", "e", "s", "u", "l", "t", "s">>

\* "the system performed well"
SystemPerformedWell ==
    <<"t", "h", "e", " ", "s", "y", "s", "t", "e", "m", " ", "p", "e", "r",
      "f", "o", "r", "m", "e", "d", " ", "w", "e", "l", "l">>

\* "This is a config-"
ConfigHyphen ==
    <<"T", "h", "i", "s", " ", "i", "s", " ", "a", " ", "c", "o", "n", "f",
      "i", "g", "-">>

\* "ured system."
UredSystem ==
    <<"u", "r", "e", "d", " ", "s", "y", "s", "t", "e", "m", ".">>

\* a block of whitespace only: a space and a line break
Blank ==
    <<" ", LF>>

\* b[4] of an image block, "<image: 10x10>"
ImageNote ==
    <<"<", "i", "m", "a", "g", "e", ":", " ", "1", "0", "x", "1", "0", ">">>

\* "1234567890123"
ThirteenDigits ==
    <<"1", "2", "3", "4", "5", "6", "7", "8", "9", "0", "1", "2", "3">>

TextContents ==
    {MeetingMinutes, FinnAndTyge, PoulWasMissing, Results,
     SystemPerformedWell, ConfigHyphen, UredSystem, Blank}

Blocks ==
    [kind : {TEXT}, content : TextContents]
      \cup [kind : {IMAGE, UNKNOWN_KIND}, content : {ImageNote}]

MaxPages == 3

MaxBlocks == 3

(***************************************************************************)
(* The requests the service handles at once, and their content types.      *)
(***************************************************************************)
MaxRequests == 2

Requests == 1..MaxRequests

PDF == "application/pdf"

PLAIN == "text/plain"

ContentTypes == {PDF, PLAIN}

\* no request has arrived
NoRequests ==
    /\ handler = [r \in Requests |-> "idle"]
    /\ content_type = [r \in Requests |-> PDF]
    /\ source = [r \in Requests |-> "unused"]
    /\ cleaned = [r \in Requests |-> 0]
    /\ replied = [r \in Requests |-> <<>>]
    /\ loop_thread = 0

(***************************************************************************)
(* The routes of the frontend (app.py) and its metrics object.             *)
(***************************************************************************)
EXTRACT == "/api/extract"

SELFTEST == "/api/selftest"

METRICS == "/api/metrics"

Endpoints == {EXTRACT, SELFTEST, METRICS}

\* metrics = Metrics() (app.py:193), and no request has arrived
NoTraffic ==
    /\ total_requests = 0
    /\ success_requests = 0
    /\ failed_requests = 0
    /\ latency_ms_count = 0
    /\ lock = 0
    /\ front = [r \in Requests |-> "idle"]
    /\ endpoint = [r \in Requests |-> METRICS]
    /\ answer = [r \in Requests |-> 0]

(***************************************************************************)
(* The request handler extract_sentences.                                  *)
(***************************************************************************)
NoText == <<>>

Init ==
    /\ pc = "start"
    /\ page = 0
    /\ doc = <<>>
    /\ all_text_list = <<>>
    /\ full_text = NoText
    /\ status = 0
    /\ raw_text = NoText
    /\ nfkd = NoText
    /\ repaired = NoText
    /\ text = NoText
    /\ candidates = <<>>
    /\ sentences = <<>>
    /\ text2 = NoText
    /\ fed = 0
    /\ stage = "handler"
    /\ NoRequests
    /\ NoTraffic

\* the locals of clean_and_split_text(s) when it returns
Clean(s) ==
    /\ raw_text' = s
    /\ nfkd' = NFKD(s)
    /\ repaired' = StructuralFixes(nfkd')
    /\ text' = Cleanup(repaired')
    /\ candidates' = SplitSentences(text', 1, 1)
    /\ sentences' = FilterSentences(candidates')

\* main.py:48-49
RejectContentType ==
    /\ pc = "start"
    /\ pc' = "rejected"
    /\ status' = 400
    /\ UNCHANGED <<page, doc, all_text_list, full_text, cleanVars,
                   functionVars>>
    /\ UNCHANGED <<serviceVars, metricsVars>>

\* main.py:52-57
OpenDocument ==
    /\ pc = "start"
    /\ pc' = "pages"
    /\ all_text_list' = <<>>
    /\ UNCHANGED <<page, doc, full_text, status, cleanVars, functionVars>>
    /\ UNCHANGED <<serviceVars, metricsVars>>

\* main.py:55 raises, main.py:86-87
OpenFails ==
    /\ pc = "start"
    /\ pc' = "unreadable"
    /\ status' = 500
    /\ UNCHANGED <<page, doc, all_text_list, full_text, cleanVars,
                   functionVars>>
    /\ UNCHANGED <<serviceVars, metricsVars>>

\* main.py:59-62
NextPage ==
    /\ pc = "pages"
    /\ page < MaxPages
    /\ page' = page + 1
    /\ UNCHANGED <<pc, doc, all_text_list, full_text, status, cleanVars,
                   functionVars>>
    /\ UNCHANGED <<serviceVars, metricsVars>>

\* main.py:64-76
ProcessBlock(b) ==
    /\ pc = "pages"
    /\ page >= 1
    /\ Len(doc) < MaxBlocks
    /\ doc' = Append(doc, b)
    /\ IF ~IsTextBlock(b)
       THEN UNCHANGED <<pc, all_text_list, status>>
       ELSE LET block_text == Strip(b.content)
            IN  IF HeaderRaises(block_text)
                THEN /\ pc' = "failed"
                     /\ status' = 500
                     /\ UNCHANGED all_text_list
                ELSE /\ all_text_list' =
                          Append(all_text_list, HeaderLogic(block_text))
                     /\ UNCHANGED <<pc, status>>
    /\ UNCHANGED <<page, full_text, cleanVars, functionVars>>
    /\ UNCHANGED <<serviceVars, metricsVars>>

\* main.py:78-84
Finish ==
    /\ pc = "pages"
    /\ full_text' = Join(all_text_list, <<LF>>)
    /\ Clean(full_text')
    /\ pc' = "returned"
    /\ status' = 200
    /\ UNCHANGED <<page, doc, all_text_list, functionVars>>
    /\ UNCHANGED <<serviceVars, metricsVars>>

Next ==
    \/ RejectContentType
    \/ OpenDocument
    \/ OpenFails
    \/ NextPage
    \/ \E b \in Blocks : ProcessBlock(b)
    \/ Finish

Spec == Init /\ [][Next]_vars

(***************************************************************************)
(* clean_and_split_text as a function of its argument: the argument is     *)
(* written from pieces, then the function is applied to it, and lines      *)
(* 27-38 are applied once more to the text they produced.                  *)
(***************************************************************************)
\* "abcdefghi."
TenChars == <<"a", "b", "c", "d", "e", "f", "g", "h", "i", ".">>

\* a word fragment hyphenated at the end of a line
HyphenBreak == <<"a", "b", "-", LF>>

\* "http://x."
UrlDot == <<"h", "t", "t", "p", ":", "/", "/", "x", ".">>

\* "http://x." broken at the end of a line
UrlBreak == UrlDot \o <<LF>>

Pieces ==
    {TenChars, HyphenBreak, UrlDot, UrlBreak, ThirteenDigits,
     <<"1">>, <<" ">>, <<LF>>, <<".">>, <<NBSP>>, <<LIG_FI>>}

MaxPieces == 4

InitText ==
    /\ pc = "idle"
    /\ page = 0
    /\ doc = <<>>
    /\ all_text_list = <<>>
    /\ full_text = NoText
    /\ status = 0
    /\ raw_text = NoText
    /\ nfkd = NoText
    /\ repaired = NoText
    /\ text = NoText
    /\ candidates = <<>>
    /\ sentences = <<>>
    /\ text2 = NoText
    /\ fed = 0
    /\ stage = "input"
    /\ NoRequests
    /\ NoTraffic

Feed(piece) ==
    /\ stage = "input"
    /\ fed < MaxPieces
    /\ raw_text' = raw_text \o piece
    /\ fed' = fed + 1
    /\ UNCHANGED <<handlerVars, nfkd, repaired, text, candidates, sentences,
                   text2, stage>>
    /\ UNCHANGED <<serviceVars, metricsVars>>

\* main.py:22-44
Apply ==
    /\ stage = "input"
    /\ Clean(raw_text)
    /\ stage' = "cleaned"
    /\ UNCHANGED <<handlerVars, text2, fed>>
    /\ UNCHANGED <<serviceVars, metricsVars>>

\* main.py:27-38 on the text of main.py:38
Reapply ==
    /\ stage = "cleaned"
    /\ text2' = RepairNormalize(text)
    /\ stage' = "again"
    /\ UNCHANGED <<handlerVars, cleanVars, fed>>
    /\ UNCHANGED <<serviceVars, metricsVars>>

NextText ==
    \/ \E piece \in Pieces : Feed(piece)
    \/ Apply
    \/ Reapply

SpecText == InitText /\ [][NextText]_vars

(***************************************************************************)
(* The page loop of extract_sentences over blocks whose length is at the   *)
(* bound of the header test, and whose ends are the marks it looks for.    *)
(***************************************************************************)
\* a text of n >= 2 characters from first to last, letters "x" in between
Padded(first, n, last) ==
    <<first>> \o [k \in 1..(n - 2) |-> "x"] \o <<last>>

HeaderContents ==
    {Padded(f, n, l) : f \in {"A", "a"}, n \in {99, 100}, l \in {"x", ";"}}
      \cup {Padded("A", 2, l) : l \in {".", "!", ":", "?"}}
      \cup {<<" ">> \o Padded(E_ACUTE, 99, "x") \o <<LF>>,
            Padded(" ", 100, "x"), <<"A">>, <<"1">>, <<" ">>}

HeaderBlocks == [kind : {TEXT}, content : HeaderContents]

NextHeader ==
    \/ OpenDocument
    \/ NextPage
    \/ \E b \in HeaderBlocks : ProcessBlock(b)

SpecHeader == Init /\ [][NextHeader]_vars

(***************************************************************************)
(* The service: extract_sentences is a coroutine (async def, main.py:47)   *)
(* and the requests share one event-loop thread.  A coroutine holds the    *)
(* thread from the moment it is started or resumed until it awaits or      *)
(* ends; main.py has one await (line 52) and hands no work to an executor. *)
(***************************************************************************)
InitService ==
    /\ pc = "idle"
    /\ page = 0
    /\ doc = <<>>
    /\ all_text_list = <<>>
    /\ full_text = NoText
    /\ status = 0
    /\ raw_text = NoText
    /\ nfkd = NoText
    /\ repaired = NoText
    /\ text = NoText
    /\ candidates = <<>>
    /\ sentences = <<>>
    /\ text2 = NoText
    /\ fed = 0
    /\ stage = "service"
    /\ NoRequests
    /\ NoTraffic

restVars == <<handlerVars, cleanVars, functionVars, metricsVars>>

\* main.py:84, main.py:49 and main.py:87: the response ends the coroutine
Reply(r, code) ==
    /\ replied' = [replied EXCEPT ![r] = Append(@, code)]
    /\ handler' = [handler EXCEPT ![r] = "done"]
    /\ loop_thread' = 0

\* a request arrives with its content type
Receive(r, ct) ==
    /\ handler[r] = "idle"
    /\ handler' = [handler EXCEPT ![r] = "received"]
    /\ content_type' = [content_type EXCEPT ![r] = ct]
    /\ UNCHANGED <<source, cleaned, replied, loop_thread, restVars>>

\* the content type nobody answers with 400
AcceptsAny(ct) == TRUE

\* main.py:48
Accepts(ct) == ct = PDF

\* main.py:47-52: the event loop starts the coroutine, which runs up to the
\* raise of line 49 or up to the await of line 52
Start(r) ==
    /\ handler[r] = "received"
    /\ loop_thread = 0
    /\ IF Accepts(content_type[r])
       THEN /\ handler' = [handler EXCEPT ![r] = "reading"]
            /\ UNCHANGED <<replied, loop_thread>>
       ELSE Reply(r, 400)
    /\ UNCHANGED <<content_type, source, cleaned, restVars>>

\* the upload has been read: the awaited pdf_file.read() is complete
ReadCompletes(r) ==
    /\ handler[r] = "reading"
    /\ handler' = [handler EXCEPT ![r] = "ready"]
    /\ UNCHANGED <<content_type, source, cleaned, replied, loop_thread,
                   restVars>>

\* main.py:52: the event loop resumes the coroutine after the await
Resume(r) ==
    /\ handler[r] = "ready"
    /\ loop_thread = 0
    /\ loop_thread' = r
    /\ handler' = [handler EXCEPT ![r] = "open"]
    /\ UNCHANGED <<content_type, source, cleaned, replied, restVars>>

\* main.py:55 returns the document
SourceOpens(r) ==
    /\ handler[r] = "open"
    /\ source' = [source EXCEPT ![r] = "open"]
    /\ handler' = [handler EXCEPT ![r] = "pages"]
    /\ UNCHANGED <<content_type, cleaned, replied, loop_thread, restVars>>

\* main.py:55 raises: the document cannot be opened
SourceFails(r) ==
    /\ handler[r] = "open"
    /\ source' = [source EXCEPT ![r] = "unreadable"]
    /\ handler' = [handler EXCEPT ![r] = "except"]
    /\ UNCHANGED <<content_type, cleaned, replied, loop_thread, restVars>>

\* main.py:59-76 runs through the pages
Extract(r) ==
    /\ handler[r] = "pages"
    /\ handler' = [handler EXCEPT ![r] = "join"]
    /\ UNCHANGED <<content_type, source, cleaned, replied, loop_thread,
                   restVars>>

\* main.py:59-62 raises: a page cannot be parsed
ParseFails(r) ==
    /\ handler[r] = "pages"
    /\ source' = [source EXCEPT ![r] = "unparsable"]
    /\ handler' = [handler EXCEPT ![r] = "except"]
    /\ UNCHANGED <<content_type, cleaned, replied, loop_thread, restVars>>

\* main.py:79-81, in the coroutine itself
RunPipeline(r) ==
    /\ handler[r] = "join"
    /\ cleaned' = [cleaned EXCEPT ![r] = @ + 1]
    /\ handler' = [handler EXCEPT ![r] = "return"]
    /\ UNCHANGED <<content_type, source, replied, loop_thread, restVars>>

\* main.py:84
Respond(r) ==
    /\ handler[r] = "return"
    /\ Reply(r, 200)
    /\ UNCHANGED <<content_type, source, cleaned, restVars>>

\* main.py:86-87
Fault(r) ==
    /\ handler[r] = "except"
    /\ Reply(r, 500)
    /\ UNCHANGED <<content_type, source, cleaned, restVars>>

NextService ==
    \/ \E r \in Requests, ct \in ContentTypes : Receive(r, ct)
    \/ \E r \in Requests : Start(r)
    \/ \E r \in Requests : ReadCompletes(r)
    \/ \E r \in Requests : Resume(r)
    \/ \E r \in Requests : SourceOpens(r)
    \/ \E r \in Requests : SourceFails(r)
    \/ \E r \in Requests : Extract(r)
    \/ \E r \in Requests : ParseFails(r)
    \/ \E r \in Requests : RunPipeline(r)
    \/ \E r \in Requests : Respond(r)
    \/ \E r \in Requests : Fault(r)

SpecService == InitService /\ [][NextService]_vars

(***************************************************************************)
(* The frontend: api_extract, api_selftest and api_metrics are coroutines  *)
(* over one Metrics object.  record_success, record_failure and snapshot   *)
(* run under metrics.lock.  The sums and texts the object also keeps       *)
(* (latency_ms_sum, last_latency_ms, last_error) are left out.             *)
(***************************************************************************)
InitFront ==
    /\ pc = "idle"
    /\ page = 0
    /\ doc = <<>>
    /\ all_text_list = <<>>
    /\ full_text = NoText
    /\ status = 0
    /\ raw_text = NoText
    /\ nfkd = NoText
    /\ repaired = NoText
    /\ text = NoText
    /\ candidates = <<>>
    /\ sentences = <<>>
    /\ text2 = NoText
    /\ fed = 0
    /\ stage = "frontend"
    /\ NoRequests
    /\ NoTraffic

backVars == <<handlerVars, cleanVars, functionVars, serviceVars>>

\* request r moves to position p
Goto(r, p) == front' = [front EXCEPT ![r] = p]

\* request r moves to position p, its response is to be code
Fail(r, code, p) ==
    /\ Goto(r, p)
    /\ answer' = [answer EXCEPT ![r] = code]

\* a request for one of the routes arrives
Call(r, ep) ==
    /\ front[r] = "idle"
    /\ Goto(r, "started")
    /\ endpoint' = [endpoint EXCEPT ![r] = ep]
    /\ UNCHANGED <<counters, lock, answer, backVars>>

\* app.py:818-823: the upload is read; it has bytes, or it is empty, or
\* reading raises
ReadUpload(r, outcome) ==
    /\ front[r] = "started"
    /\ endpoint[r] = EXTRACT
    /\ CASE outcome = "bytes" -> Goto(r, "call") /\ UNCHANGED answer
         [] outcome = "empty" -> Fail(r, 400, "record_failure")
         [] outcome = "raises" -> Fail(r, 500, "record_failure")
    /\ UNCHANGED <<counters, lock, endpoint, backVars>>

\* app.py:827 with call_sentence_service (app.py:241-304): the service
\* answers with sentences, or httpx raises, or the answer is not as expected
CallService(r, outcome) ==
    /\ front[r] = "call"
    /\ CASE outcome = "sentences" -> Goto(r, "record_success") /\ UNCHANGED answer
         [] outcome = "http_error" -> Fail(r, 502, "record_failure")
         [] outcome = "bad_answer" -> Fail(r, 500, "record_failure")
    /\ UNCHANGED <<counters, lock, endpoint, backVars>>

\* async with self.lock (app.py:160, 169, 176)
Acquire(r) ==
    /\ front[r] \in {"record_success", "record_failure", "snapshot"}
    /\ lock = 0
    /\ lock' = r
    /\ Goto(r, CASE front[r] = "record_success" -> "in_success"
                 [] front[r] = "record_failure" -> "in_failure"
                 [] front[r] = "snapshot" -> "in_snapshot")
    /\ UNCHANGED <<counters, endpoint, answer, backVars>>

\* app.py:159-166
record_success(r) ==
    /\ front[r] = "in_success"
    /\ total_requests' = total_requests + 1
    /\ success_requests' = success_requests + 1
    /\ latency_ms_count' = latency_ms_count + 1
    /\ lock' = 0
    /\ Goto(r, "return")
    /\ UNCHANGED <<failed_requests, endpoint, answer, backVars>>

\* app.py:168-173
record_failure(r) ==
    /\ front[r] = "in_failure"
    /\ total_requests' = total_requests + 1
    /\ failed_requests' = failed_requests + 1
    /\ lock' = 0
    /\ Goto(r, "return_error")
    /\ UNCHANGED <<success_requests, latency_ms_count, endpoint, answer,
                   backVars>>

\* app.py:829-834: the response is built and returned
ReturnSentences(r) ==
    /\ front[r] = "return"
    /\ Fail(r, 200, "done")
    /\ UNCHANGED <<counters, lock, endpoint, backVars>>

\* app.py:829-834 raises inside the try: JSONResponse encodes its content
\* when it is built, and a sentence that cannot be encoded (a lone
\* surrogate, which resp.json() yields for an escape like \ud800) makes it
\* raise; app.py:840-847 handles the exception
ResponseRaises(r) ==
    /\ front[r] = "return"
    /\ Fail(r, 500, "record_failure")
    /\ UNCHANGED <<counters, lock, endpoint, backVars>>

\* app.py:825, 839 and 848
ReturnError(r) ==
    /\ front[r] = "return_error"
    /\ Goto(r, "done")
    /\ UNCHANGED <<counters, lock, endpoint, answer, backVars>>

\* app.py:851-856 with run_selftest (app.py:307-379)
api_selftest(r) ==
    /\ front[r] = "started"
    /\ endpoint[r] = SELFTEST
    /\ Fail(r, 200, "done")
    /\ UNCHANGED <<counters, lock, endpoint, backVars>>

\* app.py:809-812
api_metrics(r) ==
    /\ front[r] = "started"
    /\ endpoint[r] = METRICS
    /\ Goto(r, "snapshot")
    /\ UNCHANGED <<counters, lock, endpoint, answer, backVars>>

\* app.py:175-190
snapshot(r) ==
    /\ front[r] = "in_snapshot"
    /\ lock' = 0
    /\ Fail(r, 200, "done")
    /\ UNCHANGED <<counters, endpoint, backVars>>

NextFront ==
    \/ \E r \in Requests, ep \in Endpoints : Call(r, ep)
    \/ \E r \in Requests, o \in {"bytes", "empty", "raises"} : ReadUpload(r, o)
    \/ \E r \in Requests, o \in {"sentences", "http_error", "bad_answer"} :
          CallService(r, o)
    \/ \E r \in Requests : Acquire(r)
    \/ \E r \in Requests : record_success(r)
    \/ \E r \in Requests : record_failure(r)
    \/ \E r \in Requests : ReturnSentences(r)
    \/ \E r \in Requests : ResponseRaises(r)
    \/ \E r \in Requests : ReturnError(r)
    \/ \E r \in Requests : api_selftest(r)
    \/ \E r \in Requests : api_metrics(r)
    \/ \E r \in Requests : snapshot(r)

SpecFront == InitFront /\ [][NextFront]_vars

(***************************************************************************)
(* Helpers of the properties.                                              *)
(***************************************************************************)
TextBlock(c) == [kind |-> TEXT, content |-> c]

\* p occurs in s as a contiguous run of characters
Contains(s, p) == \E i \in 1..(Len(s) + 1) : StartsAt(s, i, p)

Trimmed(s) == s # <<>> /\ s[1] \notin Space /\ s[Len(s)] \notin Space

AllDigits(s) == \A k \in 1..Len(s) : s[k] \in Digit

\* the number of places of ss that hold x
Count(ss, x) == Cardinality({k \in DOMAIN ss : ss[k] = x})

(***************************************************************************)
(* C1: for the pages [[TEXT "Meeting Minutes"], [TEXT "Finn and Tyge were  *)
(* present."], [TEXT "Poul was missing."]] the handler returns exactly     *)
(* ["Meeting Minutes.", "Finn and Tyge were present.", "Poul was           *)
(* missing."]: the header gets a period, the other two blocks are emitted  *)
(* as they are, in input order.                                            *)
(***************************************************************************)
MinutesDoc ==
    <<TextBlock(MeetingMinutes), TextBlock(FinnAndTyge),
      TextBlock(PoulWasMissing)>>

C1_EndToEnd ==
    (pc = "returned" /\ doc = MinutesDoc)
        => sentences =
             <<Append(MeetingMinutes, "."), FinnAndTyge, PoulWasMissing>>

C1_Witness ==
    /\ pc = "returned"
    /\ page = 3
    /\ doc = MinutesDoc
    /\ Len(sentences) = 3

(***************************************************************************)
(* C2, as stated: for the blocks [TEXT "Results", TEXT "the system         *)
(* performed well"] the result consists of two sentences and contains      *)
(* "Results.".                                                             *)
(***************************************************************************)
ResultsDoc == <<TextBlock(Results), TextBlock(SystemPerformedWell)>>

C2_TwoSentences ==
    (pc = "returned" /\ doc = ResultsDoc)
        => /\ Len(sentences) = 2
           /\ Append(Results, ".") \in Range(sentences)

(***************************************************************************)
(* C2, amended: for the blocks [TEXT "Results", TEXT "the system performed *)
(* well"] segmentation yields the two candidates "Results." and "the       *)
(* system performed well", not one fused candidate; "Results." has 8       *)
(* characters, so the filter drops it and the result is ["the system       *)
(* performed well"].                                                       *)
(***************************************************************************)
C2_TwoCandidates ==
    (pc = "returned" /\ doc = ResultsDoc)
        => /\ candidates = <<Append(Results, "."), SystemPerformedWell>>
           /\ sentences = <<SystemPerformedWell>>

C2_Witness ==
    /\ pc = "returned"
    /\ doc = ResultsDoc
    /\ Len(candidates) = 2
    /\ Len(sentences) = 1

(***************************************************************************)
(* C3: for the blocks [TEXT "This is a config-", TEXT "ured system."] the  *)
(* output text contains "configured system." and the two word fragments    *)
(* do not stay apart.                                                      *)
(***************************************************************************)
HyphenDoc == <<TextBlock(ConfigHyphen), TextBlock(UredSystem)>>

\* "configured system."
ConfiguredSystem ==
    <<"c", "o", "n", "f", "i", "g", "u", "r", "e", "d", " ", "s", "y", "s",
      "t", "e", "m", ".">>

C3_HyphenJoin ==
    (pc = "returned" /\ doc = HyphenDoc)
        => /\ Contains(text, ConfiguredSystem)
           /\ \E k \in DOMAIN sentences :
                Contains(sentences[k], ConfiguredSystem)

(***************************************************************************)
(* C4: every string the pipeline returns is non-empty, has no leading or   *)
(* trailing whitespace, is longer than 10 characters and does not consist  *)
(* of digits only.                                                         *)
(***************************************************************************)
C4_SentenceInvariant ==
    stage # "input"
        => \A k \in DOMAIN sentences :
             /\ Trimmed(sentences[k])
             /\ Len(sentences[k]) > 10
             /\ ~AllDigits(sentences[k])

C4_Witness ==
    /\ stage = "cleaned"
    /\ raw_text # <<>>
    /\ raw_text[1] \in Space
    /\ raw_text[Len(raw_text)] \in Space
    /\ sentences # <<>>

(***************************************************************************)
(* C5: Structural Repair followed by the Normalizer (main.py:27-38),       *)
(* applied to its own output, gives that output back.                      *)
(***************************************************************************)
C5_Idempotent == stage = "again" => text2 = text

C5_Witness ==
    /\ stage = "again"
    /\ nfkd # raw_text
    /\ repaired # nfkd
    /\ text # repaired
    /\ text2 = text

(***************************************************************************)
(* C6: a candidate is kept if and only if its trimmed length is at least   *)
(* 11 and its trimmed content is not all digits: 10 characters are         *)
(* dropped, 11 are kept, and "1234567890123" is dropped.                   *)
(***************************************************************************)
ClaimKeeps(c) == Len(Strip(c)) >= 11 /\ ~AllDigits(Strip(c))

KeptByClaim(cs) ==
    LET kept == SelectSeq(cs, ClaimKeeps)
    IN  [k \in DOMAIN kept |-> Strip(kept[k])]

C6_FilterBoundary ==
    stage # "input"
        => /\ sentences = KeptByClaim(candidates)
           /\ ThirteenDigits \notin Range(sentences)

C6_Witness ==
    /\ stage = "cleaned"
    /\ \E k \in DOMAIN candidates :
         Len(candidates[k]) = 10 /\ candidates[k] \notin Range(sentences)
    /\ \E k \in DOMAIN sentences : Len(sentences[k]) = 11

(***************************************************************************)
(* C7: the sentences come out in the order of their text, page by page and *)
(* block by block, and as often as they occur: they lie in the normalized  *)
(* text one after the other, a kept candidate that occurs k times is       *)
(* returned k times, and when no block but the last leaves a sentence open *)
(* the result is the results of the blocks, one after the other.           *)
(***************************************************************************)
\* first index i >= from where p occurs in s, 0 when there is none
RECURSIVE FindFrom(_, _, _)
FindFrom(s, p, from) ==
    IF from + Len(p) - 1 > Len(s) THEN 0
    ELSE IF StartsAt(s, from, p) THEN from
    ELSE FindFrom(s, p, from + 1)

\* the strings of ss occur in s one after the other, without overlap
RECURSIVE InOrder(_, _, _)
InOrder(ss, s, from) ==
    \/ ss = <<>>
    \/ LET i == FindFrom(s, Head(ss), from)
       IN  i # 0 /\ InOrder(Tail(ss), s, i + Len(Head(ss)))

EndsSentence(t) == t = <<>> \/ t[Len(t)] \in Terminal

SelfContained(ts) == \A k \in 1..(Len(ts) - 1) : EndsSentence(ts[k])

BlockByBlock(ts) == Flatten([k \in DOMAIN ts |-> clean_and_split_text(ts[k])])

C7_OrderKept ==
    pc = "returned"
        => /\ InOrder(sentences, text, 1)
           /\ \A x \in Range(sentences) :
                Count(sentences, x) = Count(candidates, x)
           /\ SelfContained(all_text_list)
                => sentences = BlockByBlock(all_text_list)

C7_Witness ==
    /\ pc = "returned"
    /\ page > 1
    /\ Len(sentences) = 3
    /\ sentences[1] = sentences[3]
    /\ sentences[1] # sentences[2]

(***************************************************************************)
(* C8: the result is the result of the TEXT blocks alone: blocks of any    *)
(* other kind, image or unrecognized, change nothing wherever they stand,  *)
(* and never make the request fail.                                        *)
(***************************************************************************)
IsText(b) == b.kind = TEXT

TextOnly(d) == SelectSeq(d, IsText)

\* the pipeline over blocks that are all taken for text
ExtractAll(d) ==
    clean_and_split_text(
        Join([k \in DOMAIN d |-> HeaderLogic(Strip(d[k].content))], <<LF>>))

C8_NonTextIgnored ==
    /\ pc # "failed"
    /\ pc = "returned"
         => status = 200 /\ sentences = ExtractAll(TextOnly(doc))

C8_Witness ==
    /\ pc = "returned"
    /\ \E k \in DOMAIN doc : doc[k].kind = IMAGE
    /\ \E k \in DOMAIN doc : doc[k].kind = UNKNOWN_KIND
    /\ \E k \in DOMAIN doc : doc[k].kind = TEXT
    /\ sentences # <<>>

(***************************************************************************)
(* C9: the handler never raises on a block list: once the document is open *)
(* it answers 200 with a list, and the empty block list, image blocks      *)
(* only, and TEXT blocks that are empty or whitespace give the empty list. *)
(***************************************************************************)
NoVisibleText(d) ==
    \A k \in DOMAIN d : d[k].kind = TEXT => Strip(d[k].content) = <<>>

C9_Total ==
    /\ pc # "failed"
    /\ pc = "returned" => status = 200
    /\ (pc = "returned" /\ NoVisibleText(doc)) => sentences = <<>>

C9_Witness ==
    /\ pc = "returned"
    /\ status = 200
    /\ \E k \in DOMAIN doc : doc[k] = TextBlock(Blank)
    /\ \E k \in DOMAIN doc : doc[k].kind # TEXT
    /\ NoVisibleText(doc)
    /\ sentences = <<>>

(***************************************************************************)
(* C10: Structural Repair never joins across two or more consecutive line  *)
(* breaks: a text in which no whitespace run holds exactly one line break  *)
(* passes through Structural Repair unchanged.                             *)
(***************************************************************************)
LineBreaks(s, i, j) == Cardinality({k \in i..(j - 1) : s[k] = LF})

NoSingleBreak(s) ==
    \A i \in 1..Len(s) :
        (s[i] \in Space /\ (i = 1 \/ s[i - 1] \notin Space))
            => LineBreaks(s, i, SpanEnd(s, i, Space)) # 1

C10_NoJoinAcrossBreaks ==
    (stage # "input" /\ NoSingleBreak(nfkd)) => repaired = nfkd

(***************************************************************************)
(* C11: the stages run in the order Structural Repair (hyphen, then URL),  *)
(* then the Normalizer (Unicode normalization, whitespace collapse,        *)
(* punctuation cleanup), then Segmenter & Filter: no Normalizer step       *)
(* touches the text before Structural Repair, so the result is             *)
(* Segment(Normalize(Repair(text))) for every text.                        *)
(***************************************************************************)
Repair(s) == StructuralFixes(s)

Normalize(s) == Cleanup(NFKD(s))

Segment(s) == FilterSentences(SplitSentences(s, 1, 1))

C11_RepairBeforeNormalize ==
    stage # "input" => sentences = Segment(Normalize(Repair(raw_text)))

(***************************************************************************)
(* C12: broken-URL repair.  Wherever a whitespace-free token that starts   *)
(* with http:// or https:// is followed by ".", optional whitespace, a     *)
(* line break, optional whitespace and a lowercase letter or digit, the    *)
(* whitespace and the line break are removed and the "." is kept; the rest *)
(* of the text is left as it is.                                           *)
(***************************************************************************)
\* the "." at d is followed by whitespace holding a line break and then by a
\* lowercase letter or digit
BrokenAt(s, d) ==
    LET g == SpanEnd(s, d + 1, Space)
    IN  /\ s[d] = "."
        /\ \E k \in (d + 1)..(g - 1) : s[k] = LF
        /\ g <= Len(s)
        /\ s[g] \in LowerAsciiOrDigit

\* s[i..d-1] is whitespace-free and is http:// or https:// and at least one
\* character more
UrlToken(s, i, d) ==
    /\ SchemeEnd(s, i) # 0
    /\ SchemeEnd(s, i) < d
    /\ \A k \in i..(d - 1) : s[k] \notin Space

\* the dots of s at which the claim has a URL repaired
UrlBreakDots(s) ==
    {d \in 1..Len(s) : BrokenAt(s, d) /\ \E i \in 1..(d - 1) : UrlToken(s, i, d)}

\* the whitespace the claim has removed
UrlBreakGaps(s) ==
    {k \in 1..Len(s) :
        \E d \in UrlBreakDots(s) : d < k /\ k < SpanEnd(s, d + 1, Space)}

\* s without the characters at the indices R
RECURSIVE Without(_, _)
Without(s, R) ==
    IF s = <<>> THEN <<>>
    ELSE Without(SubSeq(s, 1, Len(s) - 1), R)
           \o (IF Len(s) \in R THEN <<>> ELSE <<s[Len(s)]>>)

C12_UrlRepair ==
    stage # "input"
        => LET hyphened == SubHyphen(nfkd, 1)
           IN  repaired = Without(hyphened, UrlBreakGaps(hyphened))

(***************************************************************************)
(* C13: no head-of-line blocking.  The pipeline of a request never runs on *)
(* the event-loop thread, and while it runs a request that waits for the   *)
(* event loop can be started or resumed.                                   *)
(***************************************************************************)
InPipeline(r) == handler[r] \in {"open", "pages", "join", "return", "except"}

WaitsForLoop(q) == handler[q] \in {"received", "ready"}

C13_NoHeadOfLineBlocking ==
    \A r \in Requests :
        InPipeline(r)
            => /\ loop_thread # r
               /\ \A q \in Requests \ {r} :
                     WaitsForLoop(q) => ENABLED (Start(q) \/ Resume(q))

(***************************************************************************)
(* C14: when the document cannot be opened or parsed, the request ends in  *)
(* exactly one fault and clean_and_split_text is never called for it; a    *)
(* request whose content type is not application/pdf is answered before    *)
(* the document is opened at all.                                          *)
(***************************************************************************)
SourceFailed(r) == source[r] \in {"unreadable", "unparsable"}

C14_UpstreamFailure ==
    \A r \in Requests :
        /\ SourceFailed(r)
             => /\ cleaned[r] = 0
                /\ handler[r] \in {"except", "done"}
                /\ handler[r] = "except" => replied[r] = <<>>
                /\ handler[r] = "done" => replied[r] = <<500>>
        /\ content_type[r] # PDF
             => /\ source[r] = "unused"
                /\ cleaned[r] = 0
                /\ handler[r] \in {"received", "done"}
                /\ handler[r] = "done" => replied[r] = <<400>>

C14_Witness ==
    \E r, q \in Requests :
        /\ source[r] = "unparsable"
        /\ handler[r] = "done"
        /\ replied[r] = <<500>>
        /\ content_type[q] = PLAIN
        /\ handler[q] = "done"
        /\ replied[q] = <<400>>

(***************************************************************************)
(* C15: Header Boundary Insertion is exact.  For a TEXT block with trimmed *)
(* content c, "." is appended iff c is non-empty, shorter than 100         *)
(* characters, begins with an uppercase letter and does not end with one   *)
(* of . ! : ; ? -- a block of 99 characters qualifies, one of 100 does     *)
(* not -- and otherwise c is passed on as it is.                           *)
(***************************************************************************)
HeaderLike(c) ==
    /\ c # <<>>
    /\ Len(c) < 100
    /\ c[1] \in Upper
    /\ c[Len(c)] \notin {".", "!", ":", ";", "?"}

C15_HeaderExact ==
    (\A k \in DOMAIN doc : doc[k].kind = TEXT)
        => /\ Len(all_text_list) = Len(doc)
           /\ \A k \in DOMAIN doc :
                 LET c == Strip(doc[k].content)
                 IN  all_text_list[k] =
                       IF HeaderLike(c) THEN Append(c, ".") ELSE c

C15_Witness ==
    \E j, k \in DOMAIN doc :
        /\ doc[j].content = Padded("A", 99, "x")
        /\ all_text_list[j] = Append(Padded("A", 99, "x"), ".")
        /\ doc[k].content = Padded("A", 100, "x")
        /\ all_text_list[k] = Padded("A", 100, "x")

(***************************************************************************)
(* C16: the text handed to the segmenter holds no line break, no run of    *)
(* two or more whitespace characters, no whitespace at its start or end,   *)
(* and no whitespace right before ".", "!" or "?".                         *)
(***************************************************************************)
C16_Normalized ==
    stage # "input"
        => /\ \A k \in 1..Len(text) : text[k] # LF
           /\ \A k \in 1..(Len(text) - 1) :
                 ~(text[k] \in Space /\ text[k + 1] \in Space)
           /\ text = <<>> \/ Trimmed(text)
           /\ \A k \in 2..Len(text) :
                 text[k] \in Terminal => text[k - 1] \notin Space

C16_Witness ==
    /\ stage = "cleaned"
    /\ Len(raw_text) >= 4
    /\ raw_text[1] \in Space
    /\ raw_text[2] = LF
    /\ raw_text[3] \in Terminal
    /\ raw_text[Len(raw_text)] \in Space
    /\ text # <<>>

(***************************************************************************)
(* C17: segmentation splits exactly where ".", "!" or "?" is followed by   *)
(* whitespace.  Every candidate but the last ends with its mark, no        *)
(* candidate begins or ends with whitespace, a mark followed by anything   *)
(* else stays inside its candidate, and the candidates joined by single    *)
(* spaces are the normalized text.                                         *)
(***************************************************************************)
SplitPoints(s) ==
    {k \in 1..(Len(s) - 1) : s[k] \in Terminal /\ s[k + 1] \in Space}

C17_SplitExact ==
    stage # "input"
        => /\ Len(candidates) = Cardinality(SplitPoints(text)) + 1
           /\ \A k \in 1..(Len(candidates) - 1) :
                 /\ candidates[k] # <<>>
                 /\ candidates[k][Len(candidates[k])] \in Terminal
           /\ \A k \in DOMAIN candidates :
                 /\ candidates[k] = <<>> \/ Trimmed(candidates[k])
                 /\ SplitPoints(candidates[k]) = {}
           /\ Join(candidates, <<" ">>) = text

C17_Witness ==
    /\ stage = "cleaned"
    /\ Len(candidates) >= 2
    /\ \E k \in DOMAIN candidates :
          \E j \in 1..(Len(candidates[k]) - 1) :
              candidates[k][j] \in Terminal

(***************************************************************************)
(* C18: the frontend's metrics are consistent after any interleaving of    *)
(* /api/extract, /api/selftest and /api/metrics requests: total_requests = *)
(* success_requests + failed_requests, latency_ms_count =                  *)
(* success_requests, and once every request has been answered              *)
(* total_requests is the number of /api/extract requests -- each is        *)
(* recorded once, and the other two routes change no counter.              *)
(***************************************************************************)
AllAnswered == \A r \in Requests : front[r] \in {"idle", "done"}

Extractions ==
    Cardinality({r \in Requests : endpoint[r] = EXTRACT /\ front[r] = "done"})

C18_MetricsConsistent ==
    /\ total_requests = success_requests + failed_requests
    /\ latency_ms_count = success_requests
    /\ AllAnswered => total_requests = Extractions

====
